---- MODULE Spec2Model ----
(***************************************************************************)
(* Account credential and session lifecycle of jobtrackr-backend-v2:       *)
(* the handlers of src/controllers/authController.js over the User         *)
(* collection (src/models/User.js), with the error responses produced by   *)
(* globalErrorHandler (src/utils/errorHandler.js).                         *)
(*                                                                         *)
(* An optional field of a document (undefined or a value) is the empty     *)
(* tuple <<>> or the one-element tuple <<v>>.                              *)
(***************************************************************************)
EXTENDS Integers, Sequences, FiniteSets, TLC

\* ------------------------------------------------------------- bounds
MaxUsers == 2
MaxTicks == 2
MaxCallers == 2
\* The modelled clock advances in steps of half an hour.
TickMs == 30 * 60 * 1000

Emails == {"a@x.com", "b@x.com"}
Passwords == {"secret1", "newpw123"}
Secrets == {"s1", "s2"}
Salts == {"salt1"}
FirstNames == {"Jane"}
LastNames == {<<"Doe">>}
Envs == {"development", "test", "production"}

VARIABLES
    users,      \* the User collection: documents in insertion order, _id = index
    now,        \* Date.now(), in milliseconds
    redeemed,   \* {} or {the token with which verifyEmail succeeded last}, while it is
                \* unexpired and no later mail carries the same token
    calls       \* the requests being served concurrently, one per caller

vars == <<users, now, redeemed, calls>>

\* ------------------------------------------------------------- messages
MSG_USER_REGISTERED == "User registered successfully"
MSG_EMAIL_VERIFIED == "Email verified successfully. You can now log in."
MSG_VERIFICATION_EMAIL_SENT == "Verification email sent"
MSG_PASSWORD_RESET_SENT == "Password reset link has been sent to your email."
MSG_PASSWORD_RESET_SUCCESS == "Password reset successful. You can now log in."
MSG_USER_UPDATED == "User updated successfully"
MSG_PASSWORD_CHANGED == "Password changed successfully"
MSG_LOGIN_SUCCESS == "Login successful"
MSG_EMAIL_ALREADY_IN_USE == "Email already in use"
MSG_EMAIL_NOT_VERIFIED == "Email not verified. Please check your email and verify your account."
MSG_EMAIL_ALREADY_VERIFIED == "Email already verified"
MSG_INVALID_CREDENTIALS == "Invalid email or password"
MSG_INVALID_OR_EXPIRED_TOKEN == "Invalid or expired token"
MSG_USER_NOT_FOUND == "User not found"
MSG_INVALID_CURRENT_PASSWORD == "Invalid current password"
\* MESSAGES.ERROR has no ACCOUNT_LOCKED key: the template literal renders undefined
MSG_ACCOUNT_LOCKED == "undefined"
MSG_SOMETHING_WENT_WRONG == "Something went wrong!"

\* ------------------------------------------------------------- errors
AppError(name, statusCode, message) ==
    [name |-> name, statusCode |-> statusCode, message |-> message,
     isOperational |-> TRUE, code |-> 0]

ValidationError(message) == AppError("ValidationError", 400, message)
NotFoundError(message) == AppError("NotFoundError", 404, message)
UnauthorizedError(message) == AppError("UnauthorizedError", 401, message)
ConflictError(message) == AppError("ConflictError", 409, message)

\* An error that is no AppError: statusCode and isOperational are undefined
\* (0 and FALSE, both falsy).
PlainError(name, message, code) ==
    [name |-> name, statusCode |-> 0, message |-> message,
     isOperational |-> FALSE, code |-> code]

JsonWebTokenError(message) == PlainError("JsonWebTokenError", message, 0)
TokenExpiredError == PlainError("TokenExpiredError", "jwt expired", 0)
DuplicateKeyError(value) ==
    PlainError("MongoServerError", "E11000 duplicate key error: " \o value, 11000)

handleDuplicateFieldsDB(err) ==
    ConflictError("Duplicate field value: " \o
                  SubSeq(err.message, 29, Len(err.message)) \o
                  ". Please use another value!")
handleValidationErrorDB(err) == ValidationError(err.message)
handleJWTError == UnauthorizedError("Invalid token. Please log in again!")
handleJWTExpiredError == UnauthorizedError("Your token has expired! Please log in again.")

\* The status and body of a response: token is <<>> or <<session token>>,
\* user is <<>> or <<the user object of the body>>, stack tells whether the
\* body carries the error object and its stack trace.
Response(status, message, token, user, stack) ==
    [status |-> status, message |-> message, token |-> token, user |-> user,
     stack |-> stack]

sendErrorDev(err) ==
    Response(err.statusCode, err.message, <<>>, <<>>, TRUE)

sendErrorProd(err) ==
    IF err.isOperational
    THEN Response(err.statusCode, err.message, <<>>, <<>>, FALSE)
    ELSE Response(500, MSG_SOMETHING_WENT_WRONG, <<>>, <<>>, FALSE)

globalErrorHandler(e, nodeEnv) ==
    LET err == [e EXCEPT !.statusCode = IF e.statusCode = 0 THEN 500 ELSE e.statusCode]
    IN  IF nodeEnv = "development" THEN sendErrorDev(err)
        ELSE IF nodeEnv = "test" THEN
            LET error == IF err.name = "TokenExpiredError" THEN handleJWTExpiredError
                         ELSE IF err.name = "JsonWebTokenError" THEN handleJWTError
                         ELSE err
            IN  sendErrorProd(error)
        ELSE
            LET e1 == IF err.code = 11000 THEN handleDuplicateFieldsDB(err) ELSE err
                e2 == IF e1.name = "ValidationError" THEN handleValidationErrorDB(e1) ELSE e1
                e3 == IF e2.name = "JsonWebTokenError" THEN handleJWTError ELSE e2
                e4 == IF e3.name = "TokenExpiredError" THEN handleJWTExpiredError ELSE e3
            IN  sendErrorProd(e4)

\* What a handler wrapped in catchAsync leaves behind: the collection after it,
\* the error it threw (<<>> or <<error>>), the response it sent itself
\* (<<>> or <<response>>) and the mail it handed to sendEmail (<<>> or <<the
\* token or secret of the link>>).
Outcome(collection, thrown, res, mail) ==
    [users |-> collection, thrown |-> thrown, res |-> res, mail |-> mail]

Throw(collection, err) == Outcome(collection, <<err>>, <<>>, <<>>)

Send(collection, status, message, token, user, mail) ==
    Outcome(collection, <<>>, <<Response(status, message, token, user, FALSE)>>, mail)

\* The response the client receives under NODE_ENV = nodeEnv.
Reply(outcome, nodeEnv) ==
    IF outcome.thrown # <<>> THEN globalErrorHandler(outcome.thrown[1], nodeEnv)
    ELSE outcome.res[1]

\* ------------------------------------------------------------- primitives
\* bcrypt.hash(password, salt) and bcrypt.compare(password, hash)
BcryptHash(password, salt) == <<"$2b$10$", salt, password>>
BcryptCompare(password, hash) == hash = BcryptHash(password, hash[2])

\* crypto.createHash('sha256').update(token).digest('hex')
Sha256Hex(token) == <<"sha256", token>>

\* jwt.sign(payload, JWT_SECRET, {expiresIn: '1h'}) at time t (ms); iat and exp in seconds
JwtSign(payload, t) ==
    [payload |-> payload, iat |-> t \div 1000, exp |-> (t \div 1000) + 3600,
     key |-> "JWT_SECRET"]

EmailClaim(email) == [email |-> <<email>>, id |-> <<>>]
IdClaim(id) == [email |-> <<>>, id |-> <<id>>]

\* jwt.verify(token, JWT_SECRET) at time t: <<>> when the token verifies,
\* else <<the error thrown>>
JwtVerifyError(token, t) ==
    IF token.key # "JWT_SECRET" THEN <<JsonWebTokenError("invalid signature")>>
    ELSE IF t \div 1000 >= token.exp THEN <<TokenExpiredError>>
    ELSE <<>>

\* ------------------------------------------------------------- repository
\* A handler is an operator of the collection db it finds, the time t its
\* Date.now() reads return and its request; it yields an Outcome.

\* Faulty variant of the schema defaults: isVerified defaults to true.
NewUser_Verified(firstName, lastName, email, password) ==
    [firstName |-> firstName, lastName |-> lastName, email |-> email,
     password |-> password, isVerified |-> TRUE,
     resetPasswordToken |-> <<>>, resetPasswordExpires |-> <<>>,
     failedLoginAttempts |-> 0, accountLockedUntil |-> <<>>]

\* new User({firstName, lastName, email, password}) with the schema defaults
NewUser(firstName, lastName, email, password) ==
    [firstName |-> firstName, lastName |-> lastName, email |-> email,
     password |-> password, isVerified |-> FALSE,
     resetPasswordToken |-> <<>>, resetPasswordExpires |-> <<>>,
     failedLoginAttempts |-> 0, accountLockedUntil |-> <<>>]

\* The first document, in insertion order, among those with _id in hits.
First(hits) ==
    IF hits = {} THEN <<>> ELSE <<CHOOSE i \in hits : \A j \in hits : i <= j>>

\* User.findOne({email}): <<>> or <<_id>>
FindOneByEmail(db, email) ==
    First({i \in DOMAIN db : db[i].email = email})

\* Faulty variant of the expiry filter: $gte for $gt.
FindOneByResetToken_Inclusive(db, hashedToken, t) ==
    First({i \in DOMAIN db :
              /\ db[i].resetPasswordToken = <<hashedToken>>
              /\ db[i].resetPasswordExpires # <<>>
              /\ db[i].resetPasswordExpires[1] >= t})

\* User.findOne({resetPasswordToken: hashedToken, resetPasswordExpires: {$gt: t}})
FindOneByResetToken(db, hashedToken, t) ==
    First({i \in DOMAIN db :
              /\ db[i].resetPasswordToken = <<hashedToken>>
              /\ db[i].resetPasswordExpires # <<>>
              /\ db[i].resetPasswordExpires[1] > t})

\* User.findById(id), id being <<>> (undefined) or <<_id>>
FindById(db, id) ==
    IF id # <<>> /\ id[1] \in DOMAIN db THEN id ELSE <<>>

\* The unique index on email (userSchema) rejects a write that would give two
\* documents the same email.
ViolatesUniqueEmail(db, id, email) ==
    \E j \in DOMAIN db : j # id /\ db[j].email = email

\* ------------------------------------------------------------- handlers
\* Faulty variant of registerUser: no lookup, the unique index alone rejects the save.
registerUser_NoLookup(db, t, firstName, lastName, email, password, salt) ==
    IF ViolatesUniqueEmail(db, 0, email)
    THEN Throw(db, DuplicateKeyError(email))
    ELSE LET newUser == NewUser(firstName, lastName, email, BcryptHash(password, salt))
             token == JwtSign(EmailClaim(newUser.email), t)
         IN  Send(Append(db, newUser), 201, MSG_USER_REGISTERED, <<>>, <<>>, <<token>>)

registerUser(db, t, firstName, lastName, email, password, salt) ==
    IF FindOneByEmail(db, email) # <<>>
    THEN Throw(db, ConflictError(MSG_EMAIL_ALREADY_IN_USE))
    ELSE LET newUser == NewUser(firstName, lastName, email, BcryptHash(password, salt))
             token == JwtSign(EmailClaim(newUser.email), t)
         IN  Send(Append(db, newUser), 201, MSG_USER_REGISTERED, <<>>, <<>>, <<token>>)

\* Faulty variant of resendVerificationEmail: no check of isVerified.
resendVerificationEmail_SkipsVerified(db, t, email) ==
    LET user == FindOneByEmail(db, email)
    IN  IF user = <<>> THEN Throw(db, NotFoundError(MSG_USER_NOT_FOUND))
        ELSE Send(db, 200, MSG_VERIFICATION_EMAIL_SENT, <<>>, <<>>,
                  <<JwtSign(EmailClaim(db[user[1]].email), t)>>)

resendVerificationEmail(db, t, email) ==
    LET user == FindOneByEmail(db, email)
    IN  IF user = <<>> THEN Throw(db, NotFoundError(MSG_USER_NOT_FOUND))
        ELSE IF db[user[1]].isVerified
        THEN Throw(db, ValidationError(MSG_EMAIL_ALREADY_VERIFIED))
        ELSE Send(db, 200, MSG_VERIFICATION_EMAIL_SENT, <<>>, <<>>,
                  <<JwtSign(EmailClaim(db[user[1]].email), t)>>)

verifyEmail(db, t, token) ==
    LET bad == JwtVerifyError(token, t)
        user == IF token.payload.email = <<>> THEN <<>>
                ELSE FindOneByEmail(db, token.payload.email[1])
    IN  IF bad # <<>> THEN Throw(db, bad[1])
        ELSE IF user = <<>>
        THEN Throw(db, UnauthorizedError(MSG_INVALID_OR_EXPIRED_TOKEN))
        ELSE IF db[user[1]].isVerified
        THEN Throw(db, ValidationError(MSG_EMAIL_ALREADY_VERIFIED))
        ELSE Send([db EXCEPT ![user[1]].isVerified = TRUE],
                  200, MSG_EMAIL_VERIFIED, <<>>, <<>>, <<>>)

\* Math.ceil(a / b) for b > 0
Ceil(a, b) == 0 - ((0 - a) \div b)

\* Faulty variants of the lock check: the comparison reversed, and made inclusive.
IsLocked_Reversed(user, t) ==
    user.accountLockedUntil # <<>> /\ user.accountLockedUntil[1] < t

IsLocked_Inclusive(user, t) ==
    user.accountLockedUntil # <<>> /\ user.accountLockedUntil[1] >= t

\* Check if account is locked
IsLocked(user, t) ==
    user.accountLockedUntil # <<>> /\ user.accountLockedUntil[1] > t

\* Faulty variant of the expiry check: a lock that ends now has not expired.
LockExpired_Strict(user, t) ==
    user.accountLockedUntil # <<>> /\ user.accountLockedUntil[1] < t

\* If lockout period has expired
LockExpired(user, t) ==
    user.accountLockedUntil # <<>> /\ user.accountLockedUntil[1] <= t

\* Faulty variant of the threshold: off by one.
TooManyAttempts_Six(attempts) == attempts > 5

\* Lock account after 5 failed attempts
TooManyAttempts(attempts) == attempts >= 5

\* Faulty variant of the lock: it lasts an hour.
LockedUntil_Hour(t) == t + 60 * 60 * 1000

\* ... for 30mins
LockedUntil(t) == t + 30 * 60 * 1000

AccountLockedMessage(minutesLeft) ==
    MSG_ACCOUNT_LOCKED \o " Account will be unlocked in "
        \o ToString(minutesLeft) \o " minute(s)."

\* Faulty variant of loginUser: an expired lock is cleared, the counter is kept.
loginVerifiedUser_KeepsCount(db, clock, id, password) ==
    LET user == db[id]
    IN  IF IsLocked(user, clock[1])
        THEN LET minutesLeft == Ceil(user.accountLockedUntil[1] - clock[2], 60000)
             IN  Throw(db, UnauthorizedError(AccountLockedMessage(minutesLeft)))
        ELSE
        LET unlocked == IF LockExpired(user, clock[3])
                        THEN [user EXCEPT !.accountLockedUntil = <<>>]
                        ELSE user
            isMatch == BcryptCompare(password, unlocked.password)
            attempts == unlocked.failedLoginAttempts + 1
        IN  IF ~isMatch
            THEN IF TooManyAttempts(attempts)
                 THEN Throw([db EXCEPT ![id] =
                                [unlocked EXCEPT !.failedLoginAttempts = attempts,
                                                 !.accountLockedUntil =
                                                    <<LockedUntil(clock[4])>>]],
                            UnauthorizedError(MSG_ACCOUNT_LOCKED))
                 ELSE Throw([db EXCEPT ![id] =
                                [unlocked EXCEPT !.failedLoginAttempts = attempts]],
                            UnauthorizedError(MSG_INVALID_CREDENTIALS))
            ELSE Send([db EXCEPT ![id] =
                          [unlocked EXCEPT !.failedLoginAttempts = 0,
                                           !.accountLockedUntil = <<>>]],
                      200, MSG_LOGIN_SUCCESS,
                      <<JwtSign(IdClaim(id), clock[4])>>,
                      <<[firstName |-> user.firstName, lastName |-> user.lastName,
                         email |-> user.email]>>,
                      <<>>)

\* clock holds the values of the successive Date.now() reads of one request:
\* the lock check, the minutes left, the expiry check, and the lock time or
\* the iat of the session token.
loginVerifiedUser(db, clock, id, password) ==
    LET user == db[id]
    IN  IF IsLocked(user, clock[1])
        THEN LET minutesLeft == Ceil(user.accountLockedUntil[1] - clock[2], 60000)
             IN  Throw(db, UnauthorizedError(AccountLockedMessage(minutesLeft)))
        ELSE
        LET unlocked == IF LockExpired(user, clock[3])
                        THEN [user EXCEPT !.failedLoginAttempts = 0,
                                          !.accountLockedUntil = <<>>]
                        ELSE user
            isMatch == BcryptCompare(password, unlocked.password)
            attempts == unlocked.failedLoginAttempts + 1
        IN  IF ~isMatch
            THEN IF TooManyAttempts(attempts)
                 THEN Throw([db EXCEPT ![id] =
                                [unlocked EXCEPT !.failedLoginAttempts = attempts,
                                                 !.accountLockedUntil =
                                                    <<LockedUntil(clock[4])>>]],
                            UnauthorizedError(MSG_ACCOUNT_LOCKED))
                 ELSE Throw([db EXCEPT ![id] =
                                [unlocked EXCEPT !.failedLoginAttempts = attempts]],
                            UnauthorizedError(MSG_INVALID_CREDENTIALS))
            ELSE Send([db EXCEPT ![id] =
                          [unlocked EXCEPT !.failedLoginAttempts = 0,
                                           !.accountLockedUntil = <<>>]],
                      200, MSG_LOGIN_SUCCESS,
                      <<JwtSign(IdClaim(id), clock[4])>>,
                      <<[firstName |-> user.firstName, lastName |-> user.lastName,
                         email |-> user.email]>>,
                      <<>>)

\* Faulty variant of loginUser: the verification check comes after the
\* password check, so a wrong password on an unverified account is counted.
loginUser_PasswordFirst(db, clock, email, password) ==
    LET found == FindOneByEmail(db, email)
    IN  IF found = <<>> THEN Throw(db, UnauthorizedError(MSG_INVALID_CREDENTIALS))
        ELSE IF BcryptCompare(password, db[found[1]].password) /\ ~db[found[1]].isVerified
        THEN Throw(db, UnauthorizedError(MSG_EMAIL_NOT_VERIFIED))
        ELSE loginVerifiedUser(db, clock, found[1], password)

\* Faulty variant of loginUser: an email without an account is told apart.
loginUser_TellsNoAccount(db, clock, email, password) ==
    LET found == FindOneByEmail(db, email)
    IN  IF found = <<>> THEN Throw(db, NotFoundError(MSG_USER_NOT_FOUND))
        ELSE IF ~db[found[1]].isVerified
        THEN Throw(db, UnauthorizedError(MSG_EMAIL_NOT_VERIFIED))
        ELSE loginVerifiedUser(db, clock, found[1], password)

loginUser(db, clock, email, password) ==
    LET found == FindOneByEmail(db, email)
    IN  IF found = <<>> THEN Throw(db, UnauthorizedError(MSG_INVALID_CREDENTIALS))
        ELSE IF ~db[found[1]].isVerified
        THEN Throw(db, UnauthorizedError(MSG_EMAIL_NOT_VERIFIED))
        ELSE loginVerifiedUser(db, clock, found[1], password)

requestPasswordReset(db, t, email, resetToken) ==
    LET found == FindOneByEmail(db, email)
    IN  IF found = <<>> THEN Throw(db, NotFoundError(MSG_USER_NOT_FOUND))
        ELSE Send([db EXCEPT ![found[1]].resetPasswordToken = <<Sha256Hex(resetToken)>>,
                             ![found[1]].resetPasswordExpires = <<t + 3600000>>],
                  200, MSG_PASSWORD_RESET_SENT, <<>>, <<>>, <<resetToken>>)

\* Faulty variants of resetPassword: one leaves the reset fields in place, one
\* answers an expired token with a message of its own.
resetPassword_KeepsToken(db, t, token, newPassword, salt) ==
    LET found == FindOneByResetToken(db, Sha256Hex(token), t)
    IN  IF found = <<>>
        THEN Throw(db, UnauthorizedError(MSG_INVALID_OR_EXPIRED_TOKEN))
        ELSE Send([db EXCEPT ![found[1]].password = BcryptHash(newPassword, salt)],
                  200, MSG_PASSWORD_RESET_SUCCESS, <<>>, <<>>, <<>>)

resetPassword_TellsExpired(db, t, token, newPassword, salt) ==
    LET held == First({i \in DOMAIN db :
                          db[i].resetPasswordToken = <<Sha256Hex(token)>>})
    IN  IF held = <<>>
        THEN Throw(db, UnauthorizedError(MSG_INVALID_OR_EXPIRED_TOKEN))
        ELSE IF db[held[1]].resetPasswordExpires[1] <= t
        THEN Throw(db, UnauthorizedError("Token expired"))
        ELSE Send([db EXCEPT ![held[1]].password = BcryptHash(newPassword, salt),
                             ![held[1]].resetPasswordToken = <<>>,
                             ![held[1]].resetPasswordExpires = <<>>],
                  200, MSG_PASSWORD_RESET_SUCCESS, <<>>, <<>>, <<>>)

\* Faulty variant of resetPassword: the expiry is left behind.
resetPassword_KeepsExpiry(db, t, token, newPassword, salt) ==
    LET found == FindOneByResetToken(db, Sha256Hex(token), t)
    IN  IF found = <<>>
        THEN Throw(db, UnauthorizedError(MSG_INVALID_OR_EXPIRED_TOKEN))
        ELSE Send([db EXCEPT ![found[1]].password = BcryptHash(newPassword, salt),
                             ![found[1]].resetPasswordToken = <<>>],
                  200, MSG_PASSWORD_RESET_SUCCESS, <<>>, <<>>, <<>>)

\* Faulty variant of resetPassword: a reset also unlocks the account.
resetPassword_Unlocks(db, t, token, newPassword, salt) ==
    LET found == FindOneByResetToken(db, Sha256Hex(token), t)
    IN  IF found = <<>>
        THEN Throw(db, UnauthorizedError(MSG_INVALID_OR_EXPIRED_TOKEN))
        ELSE Send([db EXCEPT ![found[1]].password = BcryptHash(newPassword, salt),
                             ![found[1]].resetPasswordToken = <<>>,
                             ![found[1]].resetPasswordExpires = <<>>,
                             ![found[1]].failedLoginAttempts = 0,
                             ![found[1]].accountLockedUntil = <<>>],
                  200, MSG_PASSWORD_RESET_SUCCESS, <<>>, <<>>, <<>>)

resetPassword(db, t, token, newPassword, salt) ==
    LET found == FindOneByResetToken(db, Sha256Hex(token), t)
    IN  IF found = <<>>
        THEN Throw(db, UnauthorizedError(MSG_INVALID_OR_EXPIRED_TOKEN))
        ELSE Send([db EXCEPT ![found[1]].password = BcryptHash(newPassword, salt),
                             ![found[1]].resetPasswordToken = <<>>,
                             ![found[1]].resetPasswordExpires = <<>>],
                  200, MSG_PASSWORD_RESET_SUCCESS, <<>>, <<>>, <<>>)

\* Faulty variant of changePassword: the current password is not compared.
changePassword_AnyCurrent(db, userId, currentPassword, newPassword, salt) ==
    LET found == FindById(db, userId)
    IN  IF found = <<>> THEN Throw(db, NotFoundError(MSG_USER_NOT_FOUND))
        ELSE Send([db EXCEPT ![found[1]].password = BcryptHash(newPassword, salt)],
                  200, MSG_PASSWORD_CHANGED, <<>>, <<>>, <<>>)

changePassword(db, userId, currentPassword, newPassword, salt) ==
    LET found == FindById(db, userId)
    IN  IF found = <<>> THEN Throw(db, NotFoundError(MSG_USER_NOT_FOUND))
        ELSE IF ~BcryptCompare(currentPassword, db[found[1]].password)
        THEN Throw(db, UnauthorizedError(MSG_INVALID_CURRENT_PASSWORD))
        ELSE Send([db EXCEPT ![found[1]].password = BcryptHash(newPassword, salt)],
                  200, MSG_PASSWORD_CHANGED, <<>>, <<>>, <<>>)

\* Faulty variant of the update: a new email has to be verified again.
ApplyUpdates_Unverifies(user, body, salt) ==
    [user EXCEPT
        !.firstName = IF body.firstName # <<>> THEN body.firstName[1] ELSE @,
        !.lastName = IF body.lastName # <<>> THEN body.lastName[1] ELSE @,
        !.email = IF body.email # <<>> THEN body.email[1] ELSE @,
        !.isVerified = IF body.email # <<>> THEN FALSE ELSE @,
        !.password = IF body.password # <<>>
                     THEN BcryptHash(body.password[1], salt) ELSE @]

\* Faulty variant of the update: a lastName absent from the request is
\* written as undefined.
ApplyUpdates_ClearsLastName(user, body, salt) ==
    [user EXCEPT
        !.firstName = IF body.firstName # <<>> THEN body.firstName[1] ELSE @,
        !.lastName = IF body.lastName # <<>> THEN body.lastName[1] ELSE <<>>,
        !.email = IF body.email # <<>> THEN body.email[1] ELSE @,
        !.password = IF body.password # <<>>
                     THEN BcryptHash(body.password[1], salt) ELSE @]

\* The fields of the request body of updateUser: each <<>> (absent) or <<value>>.
\* The updates object holds the fields present, the password hashed.
ApplyUpdates(user, body, salt) ==
    [user EXCEPT
        !.firstName = IF body.firstName # <<>> THEN body.firstName[1] ELSE @,
        !.lastName = IF body.lastName # <<>> THEN body.lastName[1] ELSE @,
        !.email = IF body.email # <<>> THEN body.email[1] ELSE @,
        !.password = IF body.password # <<>>
                     THEN BcryptHash(body.password[1], salt) ELSE @]

EmptyUpdates(body) ==
    body.firstName = <<>> /\ body.lastName = <<>> /\ body.email = <<>>
    /\ body.password = <<>>

updateUser(db, userId, body, salt) ==
    LET found == FindById(db, userId)
    IN  IF EmptyUpdates(body)
        THEN Send(db, 200, MSG_USER_UPDATED, <<>>,
                  IF found = <<>> THEN <<>> ELSE <<db[found[1]]>>, <<>>)
        ELSE IF found = <<>> THEN Throw(db, NotFoundError(MSG_USER_NOT_FOUND))
        ELSE LET updatedUser == ApplyUpdates(db[found[1]], body, salt)
             IN  IF ViolatesUniqueEmail(db, found[1], updatedUser.email)
                 THEN Throw(db, DuplicateKeyError(updatedUser.email))
                 ELSE Send([db EXCEPT ![found[1]] = updatedUser],
                           200, MSG_USER_UPDATED, <<>>, <<updatedUser>>, <<>>)

\* protect: <<>> when next() is called, else <<the 401 response it sends>>
protect(token, t) ==
    LET bad == JwtVerifyError(token, t)
    IN  IF bad = <<>> THEN <<>>
        ELSE IF bad[1].name = "TokenExpiredError"
        THEN <<Response(401, "Token expired", <<>>, <<>>, FALSE)>>
        ELSE <<Response(401, "Invalid token", <<>>, <<>>, FALSE)>>

\* A route behind protect: the handler runs when protect calls next().
Protected(db, token, t, outcome) ==
    IF protect(token, t) = <<>> THEN outcome
    ELSE Outcome(db, <<>>, protect(token, t), <<>>)

\* ------------------------------------------------------------- state
Init ==
    /\ users = <<>>
    /\ now = 0
    /\ redeemed = {}
    /\ calls = <<>>

Unexpired(tokens, t) == {k \in tokens : JwtVerifyError(k, t) = <<>>}

MaxNow == MaxTicks * TickMs

\* The values a Date.now() read can return when the previous read returned t.
Later(t) == {x \in {t, t + TickMs} : x <= MaxNow}

\* Time passes between requests.
Tick ==
    /\ now + TickMs <= MaxNow
    /\ now' = now + TickMs
    /\ redeemed' = Unexpired(redeemed, now')
    /\ UNCHANGED <<users, calls>>

\* ------------------------------------------------------------- requests
\* A token signed with another key.
ForgedToken(payload, t) == [JwtSign(payload, t) EXCEPT !.key = "other"]

\* A token this server signed an hour before t.
StaleTokens(payload, t) ==
    IF t >= 3600000 THEN {JwtSign(payload, t - 3600000)} ELSE {}

\* The tokens a client can present to verifyEmail at time t: the token of a
\* verification mail (updateUser can change the email of an account, so the
\* email of a token need not be the email of an account), a token that has
\* verified an account already, a forged one, an expired one.
VerifyTokens(t) ==
    {JwtSign(EmailClaim(e), t) : e \in Emails}
        \cup redeemed
        \cup {ForgedToken(EmailClaim(e), t) : e \in Emails}
        \cup UNION {StaleTokens(EmailClaim(e), t) : e \in Emails}

\* The bearer tokens a client can present at time t: the session token of a
\* verified account (a login right after verifyEmail succeeds and leaves the
\* document as it is), a forged one, an expired one.
BearerTokens(db, t) ==
    {JwtSign(IdClaim(i), t) : i \in {j \in DOMAIN db : db[j].isVerified}}
        \cup {ForgedToken(IdClaim(i), t) : i \in DOMAIN db}
        \cup UNION {StaleTokens(IdClaim(i), t) : i \in DOMAIN db}

Option(S) == {<<>>} \cup {<<x>> : x \in S}

Bodies ==
    [firstName : Option(FirstNames), lastName : Option(LastNames),
     email : Option(Emails), password : Option(Passwords)]

\* The Date.now() reads of a request that starts at time t: the clock ticks at
\* most once while the request is served.
ClocksFrom(t) ==
    {<<a, b, c, d>> : a \in {t}, b \in {t}, c \in {t}, d \in Later(t)}
        \cup {<<a, b, c, d>> : a \in {t}, b \in {t}, c \in Later(t), d \in {x \in Later(t) : x > t}}
        \cup {<<a, b, c, d>> : a \in {t}, b \in {x \in Later(t) : x > t},
                               c \in {x \in Later(t) : x > t}, d \in {x \in Later(t) : x > t}}
        \cup {<<a, a, a, a>> : a \in Later(t)}

\* The redeemed tokens that the mail of outcome o does not carry anew.
NotMailed(tokens, o) == tokens \ {o.mail[i] : i \in DOMAIN o.mail}

Register(track) ==
    \E f \in FirstNames, l \in LastNames, e \in Emails, p \in Passwords, s \in Salts :
        LET o == registerUser(users, now, f, l, e, p, s)
        IN  /\ Len(o.users) <= MaxUsers
            /\ users' = o.users
            /\ redeemed' = IF track THEN NotMailed(redeemed, o) ELSE redeemed
            /\ UNCHANGED <<now, calls>>

ResendVerification(track) ==
    \E e \in Emails :
        LET o == resendVerificationEmail(users, now, e)
        IN  /\ users' = o.users
            /\ redeemed' = IF track THEN NotMailed(redeemed, o) ELSE redeemed
            /\ UNCHANGED <<now, calls>>

VerifyEmail(track) ==
    \E k \in VerifyTokens(now) :
        LET o == verifyEmail(users, now, k)
        IN  /\ users' = o.users
            /\ redeemed' = IF track /\ o.thrown = <<>> THEN {k} ELSE redeemed
            /\ UNCHANGED <<now, calls>>

Login ==
    \E e \in Emails, p \in Passwords, c \in ClocksFrom(now) :
        /\ users' = loginUser(users, c, e, p).users
        /\ now' = c[4]
        /\ redeemed' = Unexpired(redeemed, c[4])
        /\ UNCHANGED calls

\* crypto.randomBytes(32).toString('hex'): a value that no stored token was
\* made from.
RandomBytes(db) ==
    {r \in Secrets : \A i \in DOMAIN db : db[i].resetPasswordToken # <<Sha256Hex(r)>>}

RequestPasswordReset ==
    \E e \in Emails, r \in RandomBytes(users) :
        /\ users' = requestPasswordReset(users, now, e, r).users
        /\ UNCHANGED <<now, redeemed, calls>>

ResetPassword ==
    \E r \in Secrets, p \in Passwords, s \in Salts :
        /\ users' = resetPassword(users, now, r, p, s).users
        /\ UNCHANGED <<now, redeemed, calls>>

ChangePassword ==
    \E k \in BearerTokens(users, now) :
        IF protect(k, now) # <<>> THEN UNCHANGED vars
        ELSE \E c \in Passwords, p \in Passwords, s \in Salts :
                /\ users' = changePassword(users, k.payload.id, c, p, s).users
                /\ UNCHANGED <<now, redeemed, calls>>

UpdateUser ==
    \E k \in BearerTokens(users, now) :
        IF protect(k, now) # <<>> THEN UNCHANGED vars
        ELSE \E b \in Bodies, s \in Salts :
                /\ users' = updateUser(users, k.payload.id, b, s).users
                /\ UNCHANGED <<now, redeemed, calls>>

Next(track) ==
    \/ Tick
    \/ Register(track)
    \/ ResendVerification(track)
    \/ VerifyEmail(track)
    \/ Login
    \/ RequestPasswordReset
    \/ ResetPassword
    \/ ChangePassword
    \/ UpdateUser

Spec == Init /\ [][Next(FALSE)]_vars

\* The same system, remembering the tokens that have verified an account.
SpecReplay == Init /\ [][Next(TRUE)]_vars

\* ------------------------------------------------------------- concurrency
\* Requests served concurrently. A handler gives up control at each await:
\* registerUser between its lookup and its save, loginUser between its lookup
\* and each of its saves. A call keeps the collection as its lookup saw it.
Callers == 1..MaxCallers

Call(op, pc, email, password, seen, t, out) ==
    [op |-> op, pc |-> pc, email |-> email, password |-> password,
     seen |-> seen, t |-> t, out |-> out]

Idle == Call("none", "idle", "", "", <<>>, 0, <<>>)

\* The outcome a finished call leaves: the error thrown or the response sent.
Finished(call, o) ==
    [call EXCEPT !.pc = "done",
                 !.out = <<[thrown |-> o.thrown, res |-> o.res, mail |-> o.mail]>>]

\* Faulty variant of the save: the counter is incremented in the collection
\* ($inc) instead of being overwritten with the value computed from the load.
SaveModified_Increments(db, id, before, after) ==
    [db EXCEPT ![id] =
        [f \in DOMAIN after |->
            IF after[f] = before[f] THEN db[id][f]
            ELSE IF f = "failedLoginAttempts" /\ after[f] = before[f] + 1
            THEN db[id][f] + 1
            ELSE after[f]]]

\* document.save() of a loaded document: the paths modified since it was
\* loaded are written, the others keep what the collection holds.
SaveModified(db, id, before, after) ==
    [db EXCEPT ![id] =
        [f \in DOMAIN after |-> IF after[f] # before[f] THEN after[f] ELSE db[id][f]]]

\* The collections the concurrent calls start from: each is what the handlers
\* make, at time 0, of a registration, its verification and n wrong passwords.
Registered ==
    registerUser(<<>>, 0, "Jane", <<"Doe">>, "a@x.com", "secret1", "salt1").users

RECURSIVE FailedLogins(_)
FailedLogins(n) ==
    IF n = 0
    THEN verifyEmail(Registered, 0, JwtSign(EmailClaim("a@x.com"), 0)).users
    ELSE loginUser(FailedLogins(n - 1), <<0, 0, 0, 0>>, "a@x.com", "newpw123").users

RaceStarts == {<<>>, Registered} \cup {FailedLogins(n) : n \in 0..5}

InitRace ==
    /\ users \in RaceStarts
    /\ now = 0
    /\ redeemed = {}
    /\ calls = [c \in Callers |-> Idle]

StartRegister(c) ==
    \E e \in Emails, p \in Passwords :
        /\ calls[c].pc = "idle"
        /\ calls' = [calls EXCEPT ![c] = Call("register", "lookup", e, p, <<>>, 0, <<>>)]
        /\ UNCHANGED <<users, now, redeemed>>

\* await User.findOne({email})
RegisterLookup(c) ==
    /\ calls[c].op = "register" /\ calls[c].pc = "lookup"
    /\ calls' = [calls EXCEPT ![c].pc = "save", ![c].seen = users, ![c].t = now]
    /\ UNCHANGED <<users, now, redeemed>>

\* The rest of registerUser: the throw when the lookup found an account, else
\* await newUser.save(), which the unique index on email can reject.
RegisterSave(c) ==
    LET call == calls[c]
        o == registerUser(call.seen, call.t, "Jane", <<"Doe">>, call.email,
                          call.password, "salt1")
    IN  /\ call.op = "register" /\ call.pc = "save"
        /\ IF o.thrown # <<>>
           THEN /\ calls' = [calls EXCEPT ![c] = Finished(call, o)]
                /\ UNCHANGED users
           ELSE IF ViolatesUniqueEmail(users, 0, call.email)
           THEN /\ calls' = [calls EXCEPT ![c] =
                                Finished(call, Throw(users, DuplicateKeyError(call.email)))]
                /\ UNCHANGED users
           ELSE /\ Len(users) < MaxUsers
                /\ users' = Append(users, o.users[Len(o.users)])
                /\ calls' = [calls EXCEPT ![c] = Finished(call, o)]
        /\ UNCHANGED <<now, redeemed>>

StartLogin(c) ==
    \E e \in Emails, p \in Passwords :
        /\ calls[c].pc = "idle"
        /\ calls' = [calls EXCEPT ![c] = Call("login", "find", e, p, <<>>, 0, <<>>)]
        /\ UNCHANGED <<users, now, redeemed>>

\* await User.findOne({email}); the checks that follow read the clock at once.
LoginFind(c) ==
    /\ calls[c].op = "login" /\ calls[c].pc = "find"
    /\ calls' = [calls EXCEPT ![c].pc = "loaded", ![c].seen = users, ![c].t = now]
    /\ UNCHANGED <<users, now, redeemed>>

\* The loaded document passed the lock check with a lock that has expired.
SeesExpiredLock(call) ==
    LET found == FindOneByEmail(call.seen, call.email)
    IN  /\ found # <<>>
        /\ call.seen[found[1]].isVerified
        /\ ~IsLocked(call.seen[found[1]], call.t)
        /\ LockExpired(call.seen[found[1]], call.t)

\* The save of the expired-lock branch.
LoginUnlock(c) ==
    LET call == calls[c]
        id == FindOneByEmail(call.seen, call.email)[1]
        unlocked == [call.seen[id] EXCEPT !.failedLoginAttempts = 0,
                                          !.accountLockedUntil = <<>>]
    IN  /\ call.op = "login" /\ call.pc = "loaded"
        /\ SeesExpiredLock(call)
        /\ users' = SaveModified(users, id, call.seen[id], unlocked)
        /\ calls' = [calls EXCEPT ![c].seen = [call.seen EXCEPT ![id] = unlocked]]
        /\ UNCHANGED <<now, redeemed>>

\* The rest of loginUser on the loaded document: its throw, or the password
\* comparison and the save that follows it.
LoginFinish(c) ==
    LET call == calls[c]
        o == loginUser(call.seen, <<call.t, call.t, call.t, now>>, call.email,
                       call.password)
        found == FindOneByEmail(call.seen, call.email)
    IN  /\ call.op = "login" /\ call.pc = "loaded"
        /\ ~SeesExpiredLock(call)
        /\ users' = IF found = <<>> THEN users
                    ELSE SaveModified(users, found[1], call.seen[found[1]],
                                      o.users[found[1]])
        /\ calls' = [calls EXCEPT ![c] = Finished(call, o)]
        /\ UNCHANGED <<now, redeemed>>

NextRace ==
    \/ Tick
    \/ \E c \in Callers : StartRegister(c)
    \/ \E c \in Callers : RegisterLookup(c)
    \/ \E c \in Callers : RegisterSave(c)
    \/ \E c \in Callers : StartLogin(c)
    \/ \E c \in Callers : LoginFind(c)
    \/ \E c \in Callers : LoginUnlock(c)
    \/ \E c \in Callers : LoginFinish(c)

\* The concurrent calls, from the collections of RaceStarts.
SpecRace == InitRace /\ [][NextRace]_vars

\* ------------------------------------------------------------- claims
\* A request all of whose Date.now() reads return t.
At(t) == <<t, t, t, t>>

\* The times of the modelled clock from t on.
TimesFrom(t) == {k * TickMs : k \in {j \in 0..MaxTicks : j * TickMs >= t}}

\* The clock reads of a request that arrives at t or later.
ClocksAfter(t) == ClocksFrom(t) \cup {At(x) : x \in TimesFrom(t)}

WrongPasswords(user) == {p \in Passwords : ~BcryptCompare(p, user.password)}

IsAccountLockedMessage(message) ==
    \E minutesLeft \in (0 - 60)..60 : message = AccountLockedMessage(minutesLeft)

\* C1: loginUser returns no session token for an account whose
\* accountLockedUntil is later than the time of the request, whatever the
\* password supplied: the reply is a 401.
C1_LockedLoginRefused ==
    \A e \in Emails, p \in Passwords, c \in ClocksFrom(now), nodeEnv \in Envs :
        LET found == FindOneByEmail(users, e)
            reply == Reply(loginUser(users, c, e, p), nodeEnv)
        IN  (/\ found # <<>>
             /\ users[found[1]].accountLockedUntil # <<>>
             /\ users[found[1]].accountLockedUntil[1] > c[1])
            => reply.status = 401 /\ reply.token = <<>>

\* A locked account, inside its lock window, whose correct password is refused.
C1_Witness ==
    \E i \in DOMAIN users, p \in Passwords :
        /\ users[i].isVerified
        /\ users[i].accountLockedUntil # <<>>
        /\ users[i].accountLockedUntil[1] > now
        /\ BcryptCompare(p, users[i].password)
        /\ Reply(loginUser(users, At(now), users[i].email, p), "production").status = 401

\* The collections, each with the time of the last request, that n consecutive
\* wrong-password logins to account id lead to from those of S.
RECURSIVE WrongLogins(_, _, _)
WrongLogins(S, id, n) ==
    IF n = 0 THEN S
    ELSE WrongLogins(
            UNION {{[db |-> loginUser(x.db, c, x.db[id].email, p).users, t |-> c[4]] :
                        c \in ClocksAfter(x.t), p \in WrongPasswords(x.db[id])}
                   : x \in S},
            id, n - 1)

\* C2: from a verified account with failedLoginAttempts = 0, five consecutive
\* wrong-password logins leave accountLockedUntil set and in the future; a
\* sixth login inside the lock window, with any password, gets the
\* account-locked 401 and leaves the account as it is.
C2_FiveFailuresLock ==
    \A id \in DOMAIN users :
        (users[id].isVerified /\ users[id].failedLoginAttempts = 0) =>
        \A x \in WrongLogins({[db |-> users, t |-> now]}, id, 5) :
            LET user == x.db[id]
            IN  /\ user.accountLockedUntil # <<>>
                /\ user.accountLockedUntil[1] > x.t
                /\ \A c \in ClocksAfter(x.t), p \in Passwords, nodeEnv \in Envs :
                      LET o == loginUser(x.db, c, user.email, p)
                      IN  user.accountLockedUntil[1] > c[1] =>
                            /\ Reply(o, nodeEnv).status = 401
                            /\ Reply(o, nodeEnv).token = <<>>
                            /\ IsAccountLockedMessage(Reply(o, nodeEnv).message)
                            /\ o.users = x.db

\* An account the fifth wrong password has locked, inside its lock window.
C2_Witness ==
    \E i \in DOMAIN users :
        /\ users[i].failedLoginAttempts = 5
        /\ users[i].accountLockedUntil # <<>>
        /\ users[i].accountLockedUntil[1] > now

\* C3: once the time has reached accountLockedUntil, a login with the correct
\* password succeeds with a session token and leaves failedLoginAttempts = 0
\* and accountLockedUntil cleared.
C3_LoginAfterLockWindow ==
    \A i \in DOMAIN users, p \in Passwords, c \in ClocksFrom(now) :
        (/\ users[i].accountLockedUntil # <<>>
         /\ users[i].accountLockedUntil[1] <= c[1]
         /\ BcryptCompare(p, users[i].password))
        => LET o == loginUser(users, c, users[i].email, p)
           IN  /\ o.thrown = <<>>
               /\ o.res[1].status = 200
               /\ o.res[1].token = <<JwtSign(IdClaim(i), c[4])>>
               /\ o.users[i].failedLoginAttempts = 0
               /\ o.users[i].accountLockedUntil = <<>>

\* A locked account whose lock window has elapsed.
C3_Witness ==
    \E i \in DOMAIN users :
        /\ users[i].failedLoginAttempts = 5
        /\ users[i].accountLockedUntil # <<>>
        /\ users[i].accountLockedUntil[1] <= now

\* The accounts that store the hash of secret r.
Holders(db, r) == {i \in DOMAIN db : db[i].resetPasswordToken = <<Sha256Hex(r)>>}

\* resetPassword accepts secret r at time t.
Accepted(db, r, t) ==
    \E i \in Holders(db, r) :
        db[i].resetPasswordExpires # <<>> /\ db[i].resetPasswordExpires[1] > t

RefusedReset(reply) ==
    reply.status = 401 /\ reply.message = "Invalid or expired token"

\* C4: a reset secret is single-use. After resetPassword has succeeded with a
\* secret, resetPassword with the same secret, then or later, gets the 401
\* 'Invalid or expired token' and changes nothing; and a secret that is not
\* accepted becomes accepted only by a requestPasswordReset that issues it.
C4_AfterUseRefused ==
    \A r \in Secrets, p \in Passwords, q \in Passwords, s \in Salts :
        LET first == resetPassword(users, now, r, p, s)
        IN  first.thrown = <<>> =>
            \A t \in TimesFrom(now), nodeEnv \in Envs :
                LET second == resetPassword(first.users, t, r, q, s)
                IN  /\ RefusedReset(Reply(second, nodeEnv))
                    /\ second.users = first.users

C4_OnlyIssueRevives ==
    \A r \in Secrets :
        (~Accepted(users, r, now) /\ Accepted(users', r, now'))
        => \E e \in Emails : users' = requestPasswordReset(users, now, e, r).users

C4_ResetSecretSingleUse ==
    [](C4_AfterUseRefused) /\ [][C4_OnlyIssueRevives]_vars

\* A secret that resetPassword accepts, and refuses once it has been used.
C4_Witness ==
    \E r \in Secrets, p \in Passwords, s \in Salts :
        /\ Accepted(users, r, now)
        /\ resetPassword(users, now, r, p, s).thrown = <<>>
        /\ resetPassword(resetPassword(users, now, r, p, s).users, now, r, p, s).thrown # <<>>

\* C5: resetPassword with a stored secret whose resetPasswordExpires is not
\* later than the current time gets the 401 'Invalid or expired token' and
\* leaves every stored field as it is; requestPasswordReset sets the expiry
\* to the issue time plus one hour.
C5_ExpiredResetRefused ==
    /\ \A r \in Secrets, p \in Passwords, s \in Salts, nodeEnv \in Envs :
          (/\ Holders(users, r) # {}
           /\ \A i \in Holders(users, r) :
                 /\ users[i].resetPasswordExpires # <<>>
                 /\ now >= users[i].resetPasswordExpires[1])
          => LET o == resetPassword(users, now, r, p, s)
             IN  RefusedReset(Reply(o, nodeEnv)) /\ o.users = users
    /\ \A i \in DOMAIN users, r \in Secrets :
          LET o == requestPasswordReset(users, now, users[i].email, r)
          IN  /\ o.users[i].resetPasswordToken = <<Sha256Hex(r)>>
              /\ o.users[i].resetPasswordExpires = <<now + 60 * 60 * 1000>>

\* A stored secret at or past its expiry.
C5_Witness ==
    \E i \in DOMAIN users, r \in Secrets :
        /\ i \in Holders(users, r)
        /\ users[i].resetPasswordExpires # <<>>
        /\ now >= users[i].resetPasswordExpires[1]

\* A secret that requestPasswordReset never issues.
NeverIssued == "s0"

\* The replies of resetPassword to a secret never issued, to the stored
\* secrets that have expired, and to the secrets just consumed.
ReplyNeverIssued(nodeEnv, p, s) ==
    Reply(resetPassword(users, now, NeverIssued, p, s), nodeEnv)

RepliesExpired(nodeEnv, p, s) ==
    {Reply(resetPassword(users, now, r, p, s), nodeEnv) :
        r \in {x \in Secrets : Holders(users, x) # {} /\ ~Accepted(users, x, now)}}

RepliesConsumed(nodeEnv, p, s) ==
    {Reply(resetPassword(resetPassword(users, now, r, p, s).users, now, r, p, s), nodeEnv) :
        r \in {x \in Secrets : Accepted(users, x, now)}}

\* C6: resetPassword gives one response, status 401 and the same message, to
\* a secret never issued, to an expired one and to a consumed one.
C6_ResetRefusalsIdentical ==
    \A nodeEnv \in Envs, p \in Passwords, s \in Salts :
        /\ ReplyNeverIssued(nodeEnv, p, s).status = 401
        /\ \A reply \in RepliesExpired(nodeEnv, p, s) \cup RepliesConsumed(nodeEnv, p, s) :
              reply = ReplyNeverIssued(nodeEnv, p, s)

\* One account holds an expired secret while another holds one still accepted.
C6_Witness ==
    \E r \in Secrets, x \in Secrets :
        /\ Holders(users, r) # {} /\ ~Accepted(users, r, now)
        /\ Accepted(users, x, now)

\* C7: verifyEmail with a validly signed, unexpired token for an account that
\* is verified already gets the 400 'Email already verified' and changes
\* nothing; and a token that has verified an account is never accepted again.
C7_VerifiedTokenRefused ==
    /\ \A k \in VerifyTokens(now), nodeEnv \in Envs :
          LET user == IF k.payload.email = <<>> THEN <<>>
                      ELSE FindOneByEmail(users, k.payload.email[1])
              o == verifyEmail(users, now, k)
          IN  (JwtVerifyError(k, now) = <<>> /\ user # <<>> /\ users[user[1]].isVerified)
              => /\ Reply(o, nodeEnv).status = 400
                 /\ Reply(o, nodeEnv).message = "Email already verified"
                 /\ o.users = users
    /\ \A k \in redeemed : verifyEmail(users, now, k).thrown # <<>>

\* The step keeps every verified account, and keeps it verified.
StaysVerified ==
    \A i \in DOMAIN users :
        users[i].isVerified => i \in DOMAIN users' /\ users'[i].isVerified

\* C8: isVerified is monotonic: no step of register, verify,
\* resend-verification, login, forgot-password, reset-password,
\* change-password or update-profile turns a true isVerified false.
C8_IsVerifiedMonotonic == [][StaysVerified]_vars

\* A verified account that later requests have written to.
C8_Witness ==
    \E i \in DOMAIN users :
        /\ users[i].isVerified
        /\ users[i].failedLoginAttempts > 0
        /\ users[i].resetPasswordToken # <<>>
        /\ users[i].email = "b@x.com"
        /\ \E j \in DOMAIN users : j > i /\ users[j].email = "a@x.com"

WithEmail(db, email) == {i \in DOMAIN db : db[i].email = email}

\* C9: a successful registerUser with an email not in the repository adds
\* exactly one account, the only one with that email, with isVerified = false
\* and failedLoginAttempts = 0, and leaves the other accounts as they are.
C9_RegisterCreatesOneAccount ==
    \A f \in FirstNames, l \in LastNames, e \in Emails, p \in Passwords, s \in Salts :
        LET o == registerUser(users, now, f, l, e, p, s)
        IN  (WithEmail(users, e) = {} /\ o.thrown = <<>>)
            => /\ o.res[1].status = 201
               /\ Len(o.users) = Len(users) + 1
               /\ SubSeq(o.users, 1, Len(users)) = users
               /\ WithEmail(o.users, e) = {Len(o.users)}
               /\ o.users[Len(o.users)].isVerified = FALSE
               /\ o.users[Len(o.users)].failedLoginAttempts = 0

\* An account as registerUser created it, beside an email still free.
C9_Witness ==
    /\ \E i \in DOMAIN users :
          /\ ~users[i].isVerified
          /\ users[i].failedLoginAttempts = 0
          /\ WithEmail(users, users[i].email) = {i}
    /\ \E e \in Emails, p \in Passwords, s \in Salts :
          /\ WithEmail(users, e) = {}
          /\ registerUser(users, now, "Jane", <<"Doe">>, e, p, s).thrown = <<>>

\* C10: registerUser with an email that a stored account has gets the 409
\* 'Email already in use', and the repository is as before, with exactly one
\* account for that email.
C10_DuplicateEmailConflict ==
    \A f \in FirstNames, l \in LastNames, e \in Emails, p \in Passwords, s \in Salts,
       nodeEnv \in Envs :
        LET o == registerUser(users, now, f, l, e, p, s)
        IN  WithEmail(users, e) # {}
            => /\ Reply(o, nodeEnv).status = 409
               /\ Reply(o, nodeEnv).message = "Email already in use"
               /\ o.users = users
               /\ Cardinality(WithEmail(o.users, e)) = 1

\* Both emails are taken, and registering one of them again gets the 409.
C10_Witness ==
    /\ Len(users) = 2
    /\ users[1].email = "b@x.com"
    /\ users[2].email = "a@x.com"
    /\ Reply(registerUser(users, now, "Jane", <<"Doe">>, "a@x.com", "secret1", "salt1"),
             "production").status = 409

\* The register calls c and d, for one email, have both finished after both
\* looked the email up and found no account.
RegisterRace(c, d) ==
    /\ c # d
    /\ calls[c].op = "register" /\ calls[c].pc = "done"
    /\ calls[d].op = "register" /\ calls[d].pc = "done"
    /\ calls[c].email = calls[d].email
    /\ WithEmail(calls[c].seen, calls[c].email) = {}
    /\ WithEmail(calls[d].seen, calls[d].email) = {}

\* C11: when two registerUser calls for one email both pass the lookup before
\* either saves, one account is stored for the email and the call that lost
\* gets a 409.
C11_RegisterRaceConflict ==
    \A c \in DOMAIN calls, d \in DOMAIN calls, nodeEnv \in Envs :
        RegisterRace(c, d)
        => /\ Cardinality(WithEmail(users, calls[c].email)) = 1
           /\ \A x \in {c, d} :
                 calls[x].out[1].thrown # <<>>
                 => globalErrorHandler(calls[x].out[1].thrown[1], nodeEnv).status = 409

\* C12: loginUser on an account with isVerified = false, with the correct
\* password or a wrong one, gets the 401 'Email not verified' and leaves every
\* stored field as it is.
C12_UnverifiedLoginNoEffect ==
    \A i \in DOMAIN users, p \in Passwords, c \in ClocksFrom(now), nodeEnv \in Envs :
        LET o == loginUser(users, c, users[i].email, p)
        IN  ~users[i].isVerified
            => /\ Reply(o, nodeEnv).status = 401
               /\ Reply(o, nodeEnv).message =
                     "Email not verified. Please check your email and verify your account."
               /\ Reply(o, nodeEnv).token = <<>>
               /\ o.users = users

\* An unverified account beside a verified one that wrong passwords have hit.
C12_Witness ==
    \E i \in DOMAIN users, j \in DOMAIN users :
        /\ ~users[i].isVerified
        /\ users[j].isVerified /\ users[j].failedLoginAttempts > 0
        /\ \E p \in Passwords :
              /\ BcryptCompare(p, users[i].password)
              /\ loginUser(users, At(now), users[i].email, p).thrown # <<>>

\* An email that no account has.
NoAccountEmail == "nobody@x.com"

\* The response to a wrong password p on account i is the response to an
\* email without an account.
AnswersLikeNoAccount(i, p, c, nodeEnv) ==
    LET wrong == Reply(loginUser(users, c, users[i].email, p), nodeEnv)
        none == Reply(loginUser(users, c, NoAccountEmail, p), nodeEnv)
    IN  wrong.status = none.status /\ wrong.message = none.message

\* Account i is verified, is not locked at the time of the request, and the
\* failure of the request is not its fifth.
CountsQuietly(i, c) ==
    /\ users[i].isVerified
    /\ users[i].accountLockedUntil # <<>> => c[1] >= users[i].accountLockedUntil[1]
    /\ users[i].accountLockedUntil = <<>> => users[i].failedLoginAttempts < 4

\* C13, as stated: in every account state the response of loginUser to a
\* wrong password on an existing account is the response to an email that has
\* no account.
C13_AsStated ==
    \A i \in DOMAIN users :
    \A p \in WrongPasswords(users[i]), c \in ClocksFrom(now), nodeEnv \in Envs :
        AnswersLikeNoAccount(i, p, c, nodeEnv)

\* C13, amended: the response to a wrong password is the response to an email
\* that has no account exactly when the account is verified, not locked, and
\* the failure is not the fifth one; an unverified or locked account, and the
\* failure that locks, get responses of their own.
C13_WrongPasswordLikeNoAccount ==
    \A i \in DOMAIN users :
    \A p \in WrongPasswords(users[i]), c \in ClocksFrom(now), nodeEnv \in Envs :
        AnswersLikeNoAccount(i, p, c, nodeEnv) <=> CountsQuietly(i, c)

\* A verified, unlocked account with failures counted, whose next wrong
\* password gets the response of an unknown email.
C13_Witness ==
    \E i \in DOMAIN users, p \in Passwords :
        /\ users[i].isVerified
        /\ users[i].failedLoginAttempts \in 1..3
        /\ p \in WrongPasswords(users[i])
        /\ AnswersLikeNoAccount(i, p, At(now), "production")

\* verifyEmail has no account to verify with token k: the signature is bad,
\* the token has expired, or no account has its email.
NothingToVerify(k) ==
    \/ JwtVerifyError(k, now) # <<>>
    \/ k.payload.email = <<>>
    \/ FindOneByEmail(users, k.payload.email[1]) = <<>>

\* C14: verifyEmail gives one response, 401 'Invalid or expired token', to a
\* token with a bad signature, to an expired token and to a valid token whose
\* email no account has.
C14_VerifyRefusalsIdentical ==
    \A k \in VerifyTokens(now), nodeEnv \in Envs :
        NothingToVerify(k)
        => /\ Reply(verifyEmail(users, now, k), nodeEnv).status = 401
           /\ Reply(verifyEmail(users, now, k), nodeEnv).message = "Invalid or expired token"

\* The outcomes of every request a client can make in the current state.
AllOutcomes ==
    {registerUser(users, now, f, l, e, p, s) :
        f \in FirstNames, l \in LastNames, e \in Emails, p \in Passwords, s \in Salts}
    \cup {verifyEmail(users, now, k) : k \in VerifyTokens(now)}
    \cup {resendVerificationEmail(users, now, e) : e \in Emails}
    \cup {loginUser(users, c, e, p) : c \in ClocksFrom(now), e \in Emails, p \in Passwords}
    \cup {requestPasswordReset(users, now, e, r) : e \in Emails, r \in Secrets}
    \cup {resetPassword(users, now, r, p, s) : r \in Secrets, p \in Passwords, s \in Salts}
    \cup {Protected(users, k, now, changePassword(users, k.payload.id, c, p, s)) :
            k \in BearerTokens(users, now), c \in Passwords, p \in Passwords, s \in Salts}
    \cup {Protected(users, k, now, updateUser(users, k.payload.id, b, s)) :
            k \in BearerTokens(users, now), b \in Bodies, s \in Salts}

\* The body of the response carries a password hash.
CarriesPasswordHash(reply) ==
    reply.user # <<>> /\ "password" \in DOMAIN reply.user[1]

\* C15: no response body of register, verify, resend-verification, login,
\* forgot-password, reset-password, change-password or update-profile, success
\* or error, contains the stored password hash.
C15_NoPasswordHashInResponses ==
    \A o \in AllOutcomes, nodeEnv \in Envs : ~CarriesPasswordHash(Reply(o, nodeEnv))

\* Every account has both reset fields or neither.
ResetFieldsPaired ==
    \A i \in DOMAIN users :
        users[i].resetPasswordToken = <<>> <=> users[i].resetPasswordExpires = <<>>

\* A step that changes a reset field of an account is a requestPasswordReset
\* that sets both or a resetPassword that clears both.
ResetFieldsWrittenTogether ==
    \A i \in DOMAIN users :
        (\/ users'[i].resetPasswordToken # users[i].resetPasswordToken
         \/ users'[i].resetPasswordExpires # users[i].resetPasswordExpires)
        => \/ /\ users'[i].resetPasswordToken # <<>>
              /\ users'[i].resetPasswordExpires # <<>>
              /\ \E r \in Secrets :
                    users' = requestPasswordReset(users, now, users[i].email, r).users
           \/ /\ users'[i].resetPasswordToken = <<>>
              /\ users'[i].resetPasswordExpires = <<>>
              /\ \E r \in Secrets, p \in Passwords, s \in Salts :
                    users' = resetPassword(users, now, r, p, s).users

\* C16: in every reachable state every account has resetPasswordToken and
\* resetPasswordExpires both present or both absent; requestPasswordReset sets
\* both, resetPassword clears both, and no other operation changes either.
C16_ResetFieldsBothOrNeither ==
    [](ResetFieldsPaired) /\ [][ResetFieldsWrittenTogether]_vars

\* One account holds a reset token with its expiry while another, after a
\* reset, holds neither.
C16_Witness ==
    \E i \in DOMAIN users, j \in DOMAIN users :
        /\ users[i].resetPasswordToken # <<>> /\ users[i].resetPasswordExpires # <<>>
        /\ users[j].resetPasswordToken = <<>> /\ users[j].resetPasswordExpires = <<>>
        /\ users[j].password = BcryptHash("newpw123", "salt1")

\* The login calls c and d, with wrong passwords on account id, have both
\* finished after both loaded the account verified, unlocked and with n
\* failures, and no other call has written to the account.
LostUpdateRace(c, d, id, n) ==
    /\ c # d
    /\ \A x \in {c, d} :
          /\ calls[x].op = "login" /\ calls[x].pc = "done"
          /\ FindOneByEmail(calls[x].seen, calls[x].email) = <<id>>
          /\ calls[x].seen[id].isVerified
          /\ calls[x].seen[id].accountLockedUntil = <<>>
          /\ calls[x].seen[id].failedLoginAttempts = n
          /\ ~BcryptCompare(calls[x].password, calls[x].seen[id].password)
    /\ \A x \in DOMAIN calls \ {c, d} :
          calls[x].op # "login" \/ calls[x].pc = "find" \/ calls[x].email # calls[c].email

\* C17: when two loginUser calls with a wrong password on one verified,
\* unlocked account both load failedLoginAttempts = n, the stored value after
\* both have finished is n + 1 and not n + 2; such an interleaving exists.
C17_ConcurrentFailuresCountOnce ==
    \A c \in DOMAIN calls, d \in DOMAIN calls, id \in DOMAIN users, n \in 0..4 :
        LostUpdateRace(c, d, id, n) => users[id].failedLoginAttempts = n + 1

\* Two wrong-password calls have finished, both having loaded two failures,
\* and three are stored.
C17_Witness ==
    \E c \in DOMAIN calls, d \in DOMAIN calls, id \in DOMAIN users :
        /\ LostUpdateRace(c, d, id, 2)
        /\ users[id].failedLoginAttempts = 3

\* Request bodies of updateUser, with names that no registration has used.
UpdateBodies ==
    [firstName : Option(FirstNames \cup {"Janet"}),
     lastName : Option(LastNames \cup {<<"Roe">>}),
     email : Option(Emails), password : Option(Passwords)]

\* Document after is document before with exactly the fields of body written.
UpdatedBy(before, after, body) ==
    /\ after.firstName = IF body.firstName # <<>> THEN body.firstName[1] ELSE before.firstName
    /\ after.lastName = IF body.lastName # <<>> THEN body.lastName[1] ELSE before.lastName
    /\ after.email = IF body.email # <<>> THEN body.email[1] ELSE before.email
    /\ IF body.password # <<>> THEN BcryptCompare(body.password[1], after.password)
       ELSE after.password = before.password
    /\ \A f \in DOMAIN before \ {"firstName", "lastName", "email", "password"} :
          after[f] = before[f]

C19_ResendChangesNothing ==
    \A e \in Emails \cup {NoAccountEmail}, nodeEnv \in Envs :
        LET o == resendVerificationEmail(users, now, e)
            reply == Reply(o, nodeEnv)
            held == WithEmail(users, e)
        IN  /\ o.users = users
            /\ \A t \in TimesFrom(now) :
                  resendVerificationEmail(o.users, t, e).users = users
            /\ held = {} => reply.status = 404 /\ reply.message = "User not found"
                            /\ o.mail = <<>>
            /\ \A i \in held :
                  IF users[i].isVerified
                  THEN /\ reply.status = 400
                       /\ reply.message = "Email already verified"
                       /\ o.mail = <<>>
                  ELSE /\ reply.status = 200
                       /\ o.mail = <<JwtSign(EmailClaim(e), now)>>

\* A verified account and an unverified one: the first is refused, the second
\* is sent its mail.
C19_Witness ==
    \E i \in DOMAIN users, j \in DOMAIN users :
        /\ users[i].isVerified /\ ~users[j].isVerified
        /\ resendVerificationEmail(users, now, users[i].email).thrown # <<>>
        /\ resendVerificationEmail(users, now, users[j].email).mail # <<>>

\* A reset secret presented as a bearer token: a string that is no JWT, which
\* jwt.verify rejects under every key.
SecretAsToken(r) ==
    [payload |-> [email |-> <<>>, id |-> <<>>], iat |-> 0, exp |-> 0, key |-> r]

\* C20: token kinds are not interchangeable: protect accepts neither the
\* verification token of an account nor a reset secret as a session token, and
\* the session token of an account neither verifies an email through
\* verifyEmail nor resets a password through resetPassword.
C20_TokenKindsSeparate ==
    /\ \A i \in DOMAIN users :
          protect(JwtSign(EmailClaim(users[i].email), now), now) # <<>>
    /\ \A r \in Secrets : protect(SecretAsToken(r), now) # <<>>
    /\ \A i \in DOMAIN users, p \in Passwords, s \in Salts :
          LET session == JwtSign(IdClaim(i), now)
          IN  /\ verifyEmail(users, now, session).thrown # <<>>
              /\ verifyEmail(users, now, session).users = users
              /\ resetPassword(users, now, session, p, s).thrown # <<>>
              /\ resetPassword(users, now, session, p, s).users = users

\* protect on a request: authorization is <<>> when the request carries no
\* Authorization header that starts with 'Bearer', else <<the token after it>>.
protectRequest(authorization, t) ==
    IF authorization = <<>>
    THEN <<Response(401, "Not authorized, no token", <<>>, <<>>, FALSE)>>
    ELSE protect(authorization[1], t)

\* The bearer tokens of the accounts of db that jwt.verify rejects at time t.
RejectedBearerTokens(db, t) ==
    {ForgedToken(IdClaim(i), t) : i \in DOMAIN db}
        \cup UNION {StaleTokens(IdClaim(i), t) : i \in DOMAIN db}

\* C21: protect calls next() for the validly signed, unexpired session token
\* of an account; a request without a Bearer header gets 401 'Not authorized,
\* no token'; a request whose bearer token is expired or signed with another
\* key gets 401 'Not authorized, token failed'.
C21_ProtectMessages ==
    /\ protectRequest(<<>>, now) # <<>>
    /\ protectRequest(<<>>, now)[1].status = 401
    /\ protectRequest(<<>>, now)[1].message = "Not authorized, no token"
    /\ \A i \in DOMAIN users :
          protectRequest(<<JwtSign(IdClaim(i), now)>>, now) = <<>>
    /\ \A k \in RejectedBearerTokens(users, now) :
          /\ protectRequest(<<k>>, now) # <<>>
          /\ protectRequest(<<k>>, now)[1].status = 401
          /\ protectRequest(<<k>>, now)[1].message = "Not authorized, token failed"

\* ------------------------------------------------------------- delivery
\* registerUser, resendVerificationEmail and requestPasswordReset await
\* sendEmail before they respond. sendEmail awaits transporter.sendMail, which
\* the mail server settles: it accepts the message or it rejects it (a throw
\* of createTransport is caught the same way), or it never answers.
Transports == {"accepted", "rejected"}

\* Faulty variant of sendEmail: the error of the transport is thrown again.
sendEmail_Rethrows(options, transport) ==
    IF transport = "accepted" THEN [thrown |-> <<>>, success |-> TRUE]
    ELSE [thrown |-> <<PlainError("Error", "connect ECONNREFUSED", 0)>>,
          success |-> FALSE]

\* sendEmail(options) once the transport has settled: what it throws (<<>>,
\* the catch returns a value) and the success field of the value it returns.
sendEmail(options, transport) ==
    [thrown |-> <<>>, success |-> transport = "accepted"]

\* The handler after `await sendEmail(...)`: it does not read the value, and an
\* error thrown by sendEmail would go to catchAsync; o is what the handler
\* sends otherwise.
AfterSendEmail(o, sent) ==
    IF sent.thrown # <<>> THEN [o EXCEPT !.thrown = sent.thrown, !.res = <<>>]
    ELSE o

\* A call that sends mail: out is <<what the call throws or sends>>, sent is
\* <<>> until sendEmail has returned, then <<what it returned>>.
MailCall(op, pc, email, out, sent) ==
    [op |-> op, pc |-> pc, email |-> email, out |-> out, sent |-> sent]

MailIdle == MailCall("none", "idle", "", <<>>, <<>>)

InitMail ==
    /\ users \in {<<>>, Registered}
    /\ now = 0
    /\ redeemed = {}
    /\ calls = [c \in Callers |-> MailIdle]

\* A handler from its start to its await of sendEmail (or to its throw): o is
\* its outcome when sendEmail returns a value.
RunToSendEmail(c, op, email, o) ==
    /\ calls[c].pc = "idle"
    /\ Len(o.users) <= MaxUsers
    /\ users' = o.users
    /\ calls' = [calls EXCEPT ![c] =
                    MailCall(op, IF o.thrown # <<>> THEN "done" ELSE "sending", email,
                             <<[thrown |-> o.thrown, res |-> o.res, mail |-> o.mail]>>,
                             <<>>)]
    /\ UNCHANGED <<now, redeemed>>

RegisterToSendEmail(c) ==
    \E e \in Emails, p \in Passwords :
        RunToSendEmail(c, "register", e,
                       registerUser(users, now, "Jane", <<"Doe">>, e, p, "salt1"))

ResendToSendEmail(c) ==
    \E e \in Emails :
        RunToSendEmail(c, "resend", e, resendVerificationEmail(users, now, e))

RequestResetToSendEmail(c) ==
    \E e \in Emails, r \in RandomBytes(users) :
        RunToSendEmail(c, "requestReset", e, requestPasswordReset(users, now, e, r))

\* transporter.sendMail settles and sendEmail returns.
SendMailSettles(c) ==
    \E transport \in Transports :
        /\ calls[c].pc = "sending"
        /\ calls' = [calls EXCEPT
                        ![c].pc = "returned",
                        ![c].sent = <<sendEmail(calls[c].out[1].mail[1], transport)>>]
        /\ UNCHANGED <<users, now, redeemed>>

\* The handler resumes after its await and responds.
RespondAfterSendEmail(c) ==
    /\ calls[c].pc = "returned"
    /\ calls' = [calls EXCEPT
                    ![c].pc = "done",
                    ![c].out = <<AfterSendEmail(calls[c].out[1], calls[c].sent[1])>>]
    /\ UNCHANGED <<users, now, redeemed>>

NextMail ==
    \/ \E c \in Callers : RegisterToSendEmail(c)
    \/ \E c \in Callers : ResendToSendEmail(c)
    \/ \E c \in Callers : RequestResetToSendEmail(c)
    \/ \E c \in Callers : SendMailSettles(c)
    \/ \E c \in Callers : RespondAfterSendEmail(c)

\* The event loop runs a handler whose await has settled; nothing makes the
\* mail server answer.
SpecMail ==
    /\ InitMail
    /\ [][NextMail]_vars
    /\ \A c \in Callers : WF_vars(RespondAfterSendEmail(c))

\* The write the handler of call made before its await of sendEmail is in db.
WriteKept(db, call) ==
    LET found == FindOneByEmail(db, call.email)
    IN  /\ found # <<>>
        /\ call.op = "requestReset" =>
              /\ db[found[1]].resetPasswordToken = <<Sha256Hex(call.out[1].mail[1])>>
              /\ db[found[1]].resetPasswordExpires # <<>>

\* The success response of an operation that sends mail.
SuccessOf(op) ==
    IF op = "register" THEN Response(201, MSG_USER_REGISTERED, <<>>, <<>>, FALSE)
    ELSE IF op = "resend"
    THEN Response(200, MSG_VERIFICATION_EMAIL_SENT, <<>>, <<>>, FALSE)
    ELSE Response(200, MSG_PASSWORD_RESET_SENT, <<>>, <<>>, FALSE)

DeliveryFailed(call) == call.sent # <<>> /\ ~call.sent[1].success

\* sendEmail returns the failure as a value and the call that got it answers
\* with its success response.
FailedDeliveryAnswered ==
    \A c \in Callers :
        DeliveryFailed(calls[c]) =>
            /\ calls[c].sent[1].thrown = <<>>
            /\ calls[c].pc = "done" =>
                  /\ calls[c].out[1].thrown = <<>>
                  /\ calls[c].out[1].res = <<SuccessOf(calls[c].op)>>

\* The write is made when the handler reaches sendEmail, and neither the
\* return of sendEmail nor the response after it changes the collection.
DeliveryKeepsWrite ==
    \A c \in Callers :
        /\ calls[c].pc = "idle" /\ calls'[c].pc = "sending" => WriteKept(users', calls'[c])
        /\ calls[c].pc \in {"sending", "returned"} /\ calls'[c].pc # calls[c].pc =>
              users' = users

\* C22: when sendEmail fails during registerUser, resendVerificationEmail or
\* requestPasswordReset, it returns {success: false} without throwing, the
\* write the operation made (the new account, the reset digest and expiry) is
\* kept, and the operation still returns its success response.
C22_DeliveryFailureNotFatal ==
    /\ [](FailedDeliveryAnswered)
    /\ [][DeliveryKeepsWrite]_vars

\* Each of the three operations has answered after a failed delivery, and the
\* accounts they wrote are stored.
C22_Witness ==
    /\ \E c \in Callers :
          /\ calls[c].op = "requestReset" /\ calls[c].pc = "done"
          /\ DeliveryFailed(calls[c])
          /\ WriteKept(users, calls[c])
    /\ \E c \in Callers :
          /\ calls[c].op = "register" /\ calls[c].pc = "done"
          /\ DeliveryFailed(calls[c])
          /\ WriteKept(users, calls[c])

\* C23: every registerUser, resendVerificationEmail and requestPasswordReset
\* call that has reached its delivery step eventually returns its response,
\* even when the delivery never completes.
C23_ResponseDoesNotWaitOnDelivery ==
    \A c \in Callers : (calls[c].pc = "sending") ~> (calls[c].pc = "done")

\* Errors that are no AppError and that no handle* function of
\* globalErrorHandler translates: a lost database connection, a bcrypt
\* failure, a plain Error.
UnexpectedErrors ==
    {PlainError("MongoNetworkError", "connect ECONNREFUSED 127.0.0.1:27017", 0),
     PlainError("Error", "data and salt arguments required", 0),
     PlainError("Error", "boom", 0)}

\* C24: when a handler throws an error that is no typed operational error,
\* the client receives status 500 with the message 'Something went wrong!'
\* and a body without stack trace or error object, under every NODE_ENV.
C24_UnexpectedErrorsGeneric ==
    \A e \in UnexpectedErrors, nodeEnv \in Envs \cup {"staging"} :
        LET r == Reply(Throw(users, e), nodeEnv)
        IN  /\ r.status = 500
            /\ r.message = MSG_SOMETHING_WENT_WRONG
            /\ ~r.stack

\* The ids a session token can carry: those of the verified accounts (only
\* they can log in) and ids that resolve to no account.
AuthenticatedIds(db) ==
    {<<i>> : i \in {j \in DOMAIN db : db[j].isVerified}} \cup {<<>>, <<Len(db) + 1>>}

\* changePassword refuses an id without account with NotFound and a wrong
\* current password with Unauthorized 'Invalid current password', and then
\* writes nothing.
ChangePasswordRefusals(id, c, p, s) ==
    LET o == changePassword(users, id, c, p, s)
    IN  /\ FindById(users, id) = <<>> =>
              /\ o.thrown = <<NotFoundError(MSG_USER_NOT_FOUND)>>
              /\ o.users = users
        /\ (FindById(users, id) # <<>> /\ ~BcryptCompare(c, users[id[1]].password)) =>
              /\ o.thrown = <<UnauthorizedError(MSG_INVALID_CURRENT_PASSWORD)>>
              /\ o.users = users

\* After a change that succeeded, a login with the new password gets a
\* session token (when mustBeUnlocked: unless the account is locked at the
\* time of the login) and a login with a different old password gets none.
ChangePasswordTakesEffect(id, c, p, s, mustBeUnlocked) ==
    LET o == changePassword(users, id, c, p, s)
        i == id[1]
    IN  (FindById(users, id) # <<>> /\ BcryptCompare(c, users[i].password)) =>
            /\ o.thrown = <<>>
            /\ o.users = [users EXCEPT ![i].password = o.users[i].password]
            /\ o.users[i].password # users[i].password \/ c = p
            /\ \A clock \in ClocksAfter(now) :
                  /\ (mustBeUnlocked => ~IsLocked(o.users[i], clock[1])) =>
                        /\ loginUser(o.users, clock, users[i].email, p).thrown = <<>>
                        /\ loginUser(o.users, clock, users[i].email, p).res[1].token # <<>>
                  /\ c # p => loginUser(o.users, clock, users[i].email, c).thrown # <<>>

LockRunOut(user, t) ==
    user.accountLockedUntil # <<>> /\ ~(user.accountLockedUntil[1] > t)

\* C26: when loginUser finds accountLockedUntil set and not later than the
\* current time and the password is wrong, the account ends with
\* failedLoginAttempts = 1 and accountLockedUntil cleared, nothing else
\* changes, and the call throws the generic invalid-credentials error.
C26_ExpiredLockCountsFromZero ==
    \A i \in DOMAIN users :
        (users[i].isVerified /\ LockRunOut(users[i], now)) =>
            \A p \in WrongPasswords(users[i]), c \in ClocksFrom(now) :
                LET o == loginUser(users, c, users[i].email, p)
                IN  /\ o.thrown = <<UnauthorizedError(MSG_INVALID_CREDENTIALS)>>
                    /\ o.users = [users EXCEPT ![i].failedLoginAttempts = 1,
                                               ![i].accountLockedUntil = <<>>]

\* An account that five failures locked and whose lock has run out: a wrong
\* password now leaves the counter at 1 and no lock.
C26_Witness ==
    \E i \in DOMAIN users :
        LET o == loginUser(users, At(now), users[i].email, "newpw123")
        IN  /\ users[i].isVerified
            /\ users[i].failedLoginAttempts = 5
            /\ LockRunOut(users[i], now)
            /\ o.thrown # <<>>
            /\ o.users[i].failedLoginAttempts = 1
            /\ o.users[i].accountLockedUntil = <<>>

\* The failures loginUser counts before the one of a request with clock c: 0
\* once it has seen that the lock has run out.
FailuresBefore(user, c) ==
    IF LockRunOut(user, c[3]) THEN 0 ELSE user.failedLoginAttempts

\* One login to a verified account that is not locked when the request
\* arrives: a success sets the counter to 0; a failure below the fifth counts,
\* sets no lock and throws the generic error; the fifth sets the lock to 30
\* minutes from now and throws the account-locked error.
LoginCountsOrLocks(i, p, c) ==
    LET user == users[i]
        o == loginUser(users, c, user.email, p)
        after == o.users[i]
        n == FailuresBefore(user, c)
    IN  IF BcryptCompare(p, user.password)
        THEN /\ o.thrown = <<>>
             /\ after.failedLoginAttempts = 0
             /\ after.accountLockedUntil = <<>>
        ELSE IF n + 1 < 5
        THEN /\ o.thrown = <<UnauthorizedError(MSG_INVALID_CREDENTIALS)>>
             /\ after.failedLoginAttempts = n + 1
             /\ after.accountLockedUntil = <<>>
        ELSE /\ n + 1 = 5
             /\ o.thrown = <<UnauthorizedError(MSG_ACCOUNT_LOCKED)>>
             /\ o.thrown # <<UnauthorizedError(MSG_INVALID_CREDENTIALS)>>
             /\ after.failedLoginAttempts = 5
             /\ after.accountLockedUntil = <<c[4] + 30 * 60 * 1000>>

LoginsCountOrLock ==
    \A i \in DOMAIN users :
        users[i].isVerified =>
            \A p \in Passwords, c \in ClocksFrom(now) :
                ~(users[i].accountLockedUntil # <<>> /\ users[i].accountLockedUntil[1] > c[1])
                    => LoginCountsOrLocks(i, p, c)

\* A step of any operation that sets or moves the lock of an account leaves
\* its counter at 5 and the lock 30 minutes after a time of the request.
LockedOnlyAtFive ==
    \A i \in DOMAIN users :
        (/\ i \in DOMAIN users'
         /\ users'[i].accountLockedUntil # <<>>
         /\ users'[i].accountLockedUntil # users[i].accountLockedUntil) =>
            /\ users'[i].failedLoginAttempts = 5
            /\ users[i].failedLoginAttempts \in {4, 5}
            /\ users'[i].accountLockedUntil[1] \in {now + 30 * 60 * 1000, now' + 30 * 60 * 1000}

\* C27: with logins executed one at a time, a verified account becomes locked
\* exactly when a wrong-password login raises failedLoginAttempts to 5: a
\* successful login sets the counter to 0, a wrong password below the fifth
\* sets no lock and gets the generic invalid-credentials error, and the fifth
\* sets accountLockedUntil to now + 30 minutes and gets the account-locked
\* error.
C27_LockedExactlyAtFifthFailure ==
    /\ [](LoginsCountOrLock)
    /\ [][LockedOnlyAtFive]_vars

\* An account with four counted failures and no lock: the next wrong password
\* locks it; and an account with fewer that a wrong password does not lock.
C27_Witness ==
    /\ \E i \in DOMAIN users :
          LET o == loginUser(users, At(now), users[i].email, "newpw123")
          IN  /\ users[i].isVerified
              /\ users[i].failedLoginAttempts = 4
              /\ users[i].accountLockedUntil = <<>>
              /\ o.users[i].failedLoginAttempts = 5
              /\ o.users[i].accountLockedUntil = <<now + 30 * 60 * 1000>>
    /\ \E i \in DOMAIN users :
          LET o == loginUser(users, At(now), users[i].email, "newpw123")
          IN  /\ users[i].isVerified
              /\ users[i].failedLoginAttempts = 2
              /\ o.users[i].failedLoginAttempts = 3
              /\ o.users[i].accountLockedUntil = <<>>

\* C28: after any sequence of auth operations executed one at a time, every
\* account has failedLoginAttempts in 0..5, and accountLockedUntil set exactly
\* when failedLoginAttempts = 5.
C28_LockIffFiveFailures ==
    \A i \in DOMAIN users :
        /\ users[i].failedLoginAttempts \in 0..5
        /\ users[i].accountLockedUntil # <<>> <=> users[i].failedLoginAttempts = 5

\* Two accounts after wrong-password logins: the fifth failure has locked one,
\* and its lock has run out since; the other has counted fewer than five.
C28_Witness ==
    \E i \in DOMAIN users, j \in DOMAIN users :
        /\ users[i].failedLoginAttempts = 5 /\ users[i].accountLockedUntil # <<>>
        /\ users[i].accountLockedUntil[1] <= now
        /\ users[j].failedLoginAttempts \in 1..4 /\ users[j].accountLockedUntil = <<>>

\* The outcomes of resetPassword, changePassword and updateUser in the current
\* state, each with the new password it was given (<<>> when none).
PasswordWriters ==
    {[o |-> resetPassword(users, now, r, p, s), p |-> <<p>>] :
        r \in Secrets, p \in Passwords, s \in Salts}
    \cup {[o |-> changePassword(users, id, c, p, s), p |-> <<p>>] :
            id \in AuthenticatedIds(users), c \in Passwords, p \in Passwords, s \in Salts}
    \cup {[o |-> updateUser(users, id, b, s), p |-> b.password] :
            id \in AuthenticatedIds(users), b \in Bodies, s \in Salts}

LockFields(user) == <<user.failedLoginAttempts, user.accountLockedUntil>>

\* A login to account i of db inside its lock window is refused as locked.
RefusedAsLocked(db, i, p) ==
    \A c \in ClocksFrom(now), nodeEnv \in Envs :
        LET o == loginUser(db, c, db[i].email, p)
        IN  IsLocked(db[i], c[1]) =>
              /\ Reply(o, nodeEnv).status = 401
              /\ Reply(o, nodeEnv).token = <<>>
              /\ IsAccountLockedMessage(Reply(o, nodeEnv).message)
              /\ o.users = db

\* C29: resetPassword, changePassword and updateUser never change
\* failedLoginAttempts or accountLockedUntil: an account locked before one of
\* them is locked afterwards, and loginUser with the new password inside the
\* lock window is refused with the account-locked error.
C29_PasswordWritesKeepLock ==
    \A w \in PasswordWriters :
        /\ DOMAIN w.o.users = DOMAIN users
        /\ \A i \in DOMAIN users :
              /\ LockFields(w.o.users[i]) = LockFields(users[i])
              /\ (w.o.thrown = <<>> /\ w.p # <<>> /\ w.o.users[i] # users[i]
                    /\ IsLocked(users[i], now)) =>
                    /\ IsLocked(w.o.users[i], now)
                    /\ RefusedAsLocked(w.o.users, i, w.p[1])

\* A locked account that holds a reset secret still accepted: the reset with
\* it succeeds, and so does a change with the current password; the account
\* stays locked.
C29_Witness ==
    \E i \in DOMAIN users, r \in Secrets :
        LET reset == resetPassword(users, now, r, "newpw123", "salt1")
            change == changePassword(users, <<i>>, "secret1", "newpw123", "salt1")
        IN  /\ users[i].isVerified
            /\ IsLocked(users[i], now)
            /\ reset.thrown = <<>>
            /\ reset.users[i].password # users[i].password
            /\ change.thrown = <<>>
            /\ IsLocked(reset.users[i], now)
            /\ loginUser(reset.users, At(now), users[i].email, "newpw123").thrown # <<>>

\* A step of login call c while the account of its email is stored locked:
\* the call does not finish with a session token, and the step neither clears
\* the stored lock nor sets failedLoginAttempts to 0.
LoginStepRespectsLock(c) ==
    LET call == calls[c]
        found == FindOneByEmail(users, call.email)
    IN  (/\ call.op = "login"
         /\ calls'[c] # call
         /\ found # <<>>
         /\ IsLocked(users[found[1]], now)) =>
            /\ calls'[c].pc = "done" => calls'[c].out[1].res = <<>>
            /\ users'[found[1]].accountLockedUntil # <<>>
            /\ users'[found[1]].failedLoginAttempts # 0

\* C30: under every interleaving of concurrent loginUser calls on one account,
\* once a call has stored accountLockedUntil in the future, no loginUser call
\* that completes before that time returns a session token, and no write of
\* another loginUser call in flight clears the stored lock or resets
\* failedLoginAttempts.
C30_ConcurrentLoginsRespectLock ==
    [][\A c \in Callers : LoginStepRespectsLock(c)]_vars

====
